---------------------------- MODULE Spec2Model ----------------------------
(***************************************************************************)
(* A model of the collaborative editing server of src/main.py: the         *)
(* sequence document (CRDTChar, CRDTDocument), the per-document session    *)
(* (DocumentManager) and the per-connection handler (websocket_endpoint).  *)
(*                                                                         *)
(* Three specifications share the state:                                   *)
(*   SpecDoc  drives CRDTDocument directly with arbitrary merge_insert and *)
(*            merge_delete calls (ids may repeat, anchors may be unknown); *)
(*   Spec     runs the connection handlers as asyncio tasks, interleaved   *)
(*            at their await points, from the start of the process;        *)
(*   SpecSession runs them from a session that NConn connections have      *)
(*            joined one after the other.                                  *)
(***************************************************************************)
EXTENDS Integers, Sequences, FiniteSets, TLC

(* ------------------------------ bounds --------------------------------- *)

\* Ids a caller of CRDTDocument may use (SpecDoc) or a client may name (Spec).
NIds == 3

\* Connections (WebSocket objects, one handler task each).
NConn == 3

\* Connections that Spec accepts; SpecSession starts with all NConn attached.
MaxAccept == 2

\* Inbound messages the handlers receive, all connections together, in Spec
\* and in SpecSession.
MaxMsgs == 2

MaxSessionMsgs == 1

\* Connections that are closed at a time.
MaxClose == 2

(* ------------------------------ values --------------------------------- *)

\* Python's None for an id (msg.get("after") of a message without anchor).
None == 0

Ids == 1..NIds

Chars == {"a", "b"}

Conns == 1..NConn

\* client_id: Optional[str] = Query(None); two clients may also share one.
\* The code only compares client ids with each other (and with ""), so a
\* connection uses an id that is in use or the first of ClientIds that is not.
NoneCid == "<None>"

ClientIds == <<"a", NoneCid, "b">>

\* username: Optional[str] = Query("Anonymous")
Usernames == {"Anonymous"}

\* msg.get("position", 0)
Positions == {1}

DocId == "d"

VARIABLES
  docs,      \* manager.docs: the set of doc_ids that have a record
  doc,       \* docs[DocId]["doc"].chars: the sequence of CRDTChar
  sockets,   \* docs[DocId]["sockets"]
  clients,   \* docs[DocId]["clients"]: client_id -> {username, cursor}
  client_id, \* per handler: its client_id and username query parameters
  state,     \* per connection: "connecting", "open" or "closed" (transport)
  pc,        \* per handler: where the task of websocket_endpoint stands
  stack,     \* per handler: its nested calls of DocumentManager.broadcast
  snapshot,  \* per handler: its local variable snapshot (line 131)
  inbox,     \* per connection: the messages send_json has delivered to it
  nmsgs,     \* inbound messages received so far (bounded by MaxMsgs)
  returned,  \* history: what each returned call of broadcast had done
  records,   \* history: how many records ensure_doc has made for DocId
  applied,   \* history: the operations applied, in the order of application
  call,      \* history: the last CRDTDocument call and its arguments
  before,    \* history: doc as it was when that call started
  deleted,   \* history: ids merge_delete was called with while present
  dropped    \* history: ids merge_delete was called with while absent and
             \* that no merge_insert has been given since

vars ==
  <<docs, doc, sockets, clients, client_id, state, pc, stack, snapshot, inbox,
    nmsgs, returned, records, applied, call, before, deleted, dropped>>

\* The state of the handlers and connections, and the CRDTDocument history.
hvars ==
  <<client_id, state, pc, stack, snapshot, inbox, nmsgs, returned, records,
    applied>>

dvars == <<call, before, deleted, dropped>>

(* --------------------------- CRDTDocument ------------------------------ *)

CRDTChar(id, char, visible) == [id |-> id, char |-> char, visible |-> visible]

to_dict(c) == [id |-> c.id, char |-> c.char, visible |-> c.visible]

to_snapshot(chars) == [i \in 1..Len(chars) |-> to_dict(chars[i])]

\* any(c.id == op_id for c in self.chars)
HasId(chars, id) == \E i \in 1..Len(chars) : chars[i].id = id

\* The index (1-based) at which a scan from the front first finds id.
IndexOf(chars, id) ==
  CHOOSE i \in 1..Len(chars) :
    /\ chars[i].id = id
    /\ \A j \in 1..(i - 1) : chars[j].id # id

\* list.insert(i, x) with a 0-based i in 0..len: x ends up at 1-based i + 1.
ListInsert(chars, i, x) ==
  SubSeq(chars, 1, i) \o <<x>> \o SubSeq(chars, i + 1, Len(chars))

\* merge_insert without the duplicate check of lines 29-31.
merge_insert_nodup(chars, op_id, char, after_id) ==
  LET new_char == CRDTChar(op_id, char, TRUE) IN
  IF after_id = None THEN ListInsert(chars, 0, new_char)
  ELSE IF HasId(chars, after_id)
       THEN ListInsert(chars, IndexOf(chars, after_id), new_char)
       ELSE Append(chars, new_char)

\* merge_insert whose fallback puts the node first instead of last.
merge_insert_lostfront(chars, op_id, char, after_id) ==
  IF HasId(chars, op_id) THEN chars
  ELSE LET new_char == CRDTChar(op_id, char, TRUE) IN
       IF after_id = None THEN ListInsert(chars, 0, new_char)
       ELSE IF HasId(chars, after_id)
            THEN ListInsert(chars, IndexOf(chars, after_id), new_char)
            ELSE ListInsert(chars, 0, new_char)

\* merge_insert with insert(i, ...) for insert(i+1, ...): before the anchor.
merge_insert_before(chars, op_id, char, after_id) ==
  IF HasId(chars, op_id) THEN chars
  ELSE LET new_char == CRDTChar(op_id, char, TRUE) IN
       IF after_id = None THEN ListInsert(chars, 0, new_char)
       ELSE IF HasId(chars, after_id)
            THEN ListInsert(chars, IndexOf(chars, after_id) - 1, new_char)
            ELSE Append(chars, new_char)

\* merge_insert that moves a node whose id is there to the place the anchor
\* names, in place of the return of line 31.
merge_insert_move(chars, op_id, char, after_id) ==
  LET rest == SelectSeq(chars, LAMBDA x : x.id # op_id)
      node == IF HasId(chars, op_id) THEN chars[IndexOf(chars, op_id)]
              ELSE CRDTChar(op_id, char, TRUE)
  IN IF after_id = None THEN ListInsert(rest, 0, node)
     ELSE IF HasId(rest, after_id)
          THEN ListInsert(rest, IndexOf(rest, after_id), node)
          ELSE Append(rest, node)

\* merge_insert whose duplicate check passes over the tombstoned nodes.
merge_insert_dupvisible(chars, op_id, char, after_id) ==
  IF \E i \in 1..Len(chars) : chars[i].id = op_id /\ chars[i].visible
  THEN chars
  ELSE LET new_char == CRDTChar(op_id, char, TRUE) IN
       IF after_id = None THEN ListInsert(chars, 0, new_char)
       ELSE IF HasId(chars, after_id)
            THEN ListInsert(chars, IndexOf(chars, after_id), new_char)
            ELSE Append(chars, new_char)

merge_insert(chars, op_id, char, after_id) ==
  IF HasId(chars, op_id) THEN chars
  ELSE LET new_char == CRDTChar(op_id, char, TRUE) IN
       IF after_id = None THEN ListInsert(chars, 0, new_char)
       ELSE IF HasId(chars, after_id)
            THEN ListInsert(chars, IndexOf(chars, after_id), new_char)
            ELSE Append(chars, new_char)

\* merge_delete that removes the node instead of marking it.
merge_delete_remove(chars, op_id) ==
  IF HasId(chars, op_id)
  THEN SubSeq(chars, 1, IndexOf(chars, op_id) - 1)
         \o SubSeq(chars, IndexOf(chars, op_id) + 1, Len(chars))
  ELSE chars

\* merge_delete that remembers the delete of an unknown id as a tombstone.
merge_delete_buffer(chars, op_id) ==
  IF HasId(chars, op_id)
  THEN [chars EXCEPT ![IndexOf(chars, op_id)].visible = FALSE]
  ELSE Append(chars, CRDTChar(op_id, "", FALSE))

merge_delete(chars, op_id) ==
  IF HasId(chars, op_id)
  THEN [chars EXCEPT ![IndexOf(chars, op_id)].visible = FALSE]
  ELSE chars

RECURSIVE get_text(_)
\* "".join([c.char for c in self.chars if c.visible]); a string is modelled
\* as the sequence of its characters.
get_text(chars) ==
  IF chars = <<>> THEN <<>>
  ELSE IF Head(chars).visible
       THEN <<Head(chars).char>> \o get_text(Tail(chars))
       ELSE get_text(Tail(chars))

(* ------------------------------ Init ----------------------------------- *)

\* redo: the call is a merge_insert of an id in dropped.
NoCall ==
  [op |-> "none", id |-> None, char |-> "", after |-> None, redo |-> FALSE]

Init ==
  /\ docs = {}
  /\ doc = <<>>
  /\ sockets = {}
  /\ clients = <<>>
  /\ client_id = [c \in Conns |-> [id |-> NoneCid, username |-> "Anonymous"]]
  /\ state = [c \in Conns |-> "connecting"]
  /\ pc = [c \in Conns |-> "accept"]
  /\ stack = [c \in Conns |-> <<>>]
  /\ snapshot = [c \in Conns |-> <<>>]
  /\ inbox = [c \in Conns |-> <<>>]
  /\ nmsgs = 0
  /\ returned = {}
  /\ records = 0
  /\ applied = <<>>
  /\ call = NoCall
  /\ before = <<>>
  /\ deleted = {}
  /\ dropped = {}

(* ------------------- SpecDoc: CRDTDocument on its own ------------------ *)

\* An anchor a caller may pass: None, any id of Ids (known or not).
AfterIds == Ids \cup {None}

DocInsert(op_id, char, after_id) ==
  /\ doc' = merge_insert(doc, op_id, char, after_id)
  /\ call' = [op |-> "insert", id |-> op_id, char |-> char, after |-> after_id,
              redo |-> op_id \in dropped]
  /\ before' = doc
  /\ dropped' = dropped \ {op_id}
  /\ UNCHANGED <<docs, sockets, clients, hvars, deleted>>

DocDelete(op_id) ==
  /\ doc' = merge_delete(doc, op_id)
  /\ call' = [op |-> "delete", id |-> op_id, char |-> "", after |-> None,
              redo |-> FALSE]
  /\ before' = doc
  /\ deleted' = IF HasId(doc, op_id) THEN deleted \cup {op_id} ELSE deleted
  /\ dropped' = IF HasId(doc, op_id) THEN dropped ELSE dropped \cup {op_id}
  /\ UNCHANGED <<docs, sockets, clients, hvars>>

NextDoc ==
  \/ \E op_id \in Ids, char \in Chars, after_id \in AfterIds :
       DocInsert(op_id, char, after_id)
  \/ \E op_id \in Ids : DocDelete(op_id)

SpecDoc == Init /\ [][NextDoc]_vars

(* --------------------------- DocumentManager --------------------------- *)

\* An id that no node ever has: a client may name it, uuid4 never returns it.
Unseen == NIds + 1

\* str(uuid.uuid4()): an id that no node of the document has.
uuid4(chars) == Len(chars) + 1

\* d[k] = v and del d[k] on a dict.
SetKey(d, k, v) == [x \in DOMAIN d \cup {k} |-> IF x = k THEN v ELSE d[x]]

DelKey(d, k) == [x \in DOMAIN d \ {k} |-> d[x]]

Range(q) == {q[i] : i \in 1..Len(q)}

\* The message of broadcast_users; the list users is modelled as a set.
UserList(cl) ==
  [type |-> "user_list",
   users |-> {[id |-> k, username |-> cl[k].username, cursor |-> cl[k].cursor] :
                k \in DOMAIN cl}]

\* A broadcast that passes over the sockets whose handler has not sent its
\* snapshot yet.
Frame_ready(message, socks, cause) ==
  LET ready == {ws \in socks : pc[ws] \notin {"connect", "snapshot"}} IN
  [message |-> message, todo |-> ready, to_remove |-> <<>>, nremoved |-> 0,
   targets |-> ready, sent |-> <<>>, cause |-> cause, nlisted |-> 0]

\* One running call of broadcast(doc_id, message). todo is the part of the
\* local list sockets the loop of line 103 has not reached yet: list(set) may
\* come in any order, so the next element is any element of todo. to_remove
\* grows in the first loop; nremoved is how far the loop of line 108 has come.
\* targets, sent, cause and nlisted are history: the sockets listed at line
\* 101, the sockets send_json returned for, the socket whose removal by line
\* 109 led to this broadcast (0 when there is none), and how many of the
\* broadcast_users of the loop of line 108 had a socket to send to.
Frame(message, socks, cause) ==
  [message |-> message, todo |-> socks, to_remove |-> <<>>, nremoved |-> 0,
   targets |-> socks, sent |-> <<>>, cause |-> cause, nlisted |-> 0]

\* How often ws occurs in the sequence q.
Count(q, ws) == Cardinality({i \in 1..Len(q) : q[i] = ws})

\* The sockets still in socks that have the client id of ws, ws aside.
Sharing(socks, ws) == {o \in socks \ {ws} : client_id[o].id = client_id[ws].id}

\* What a returning call of broadcast has done, for the history returned:
\* the numbers of deliveries that succeeded and that failed, the number of
\* calls of disconnect (each ends in one broadcast_users) and how many of
\* these had a socket to send to, the listed sockets
\* whose delivery did not fail and that did not get the message exactly once,
\* the failed sockets that are still in sockets, and the failed sockets whose
\* client id is still in clients though no attached socket has it.
Summary(f, S) ==
  [nsent |-> Len(f.sent),
   nfailed |-> Len(f.to_remove),
   rosters |-> f.nremoved,
   listed |-> f.nlisted,
   missed |-> {ws \in f.targets \ Range(f.to_remove) : Count(f.sent, ws) # 1},
   attached |-> Range(f.to_remove) \cap S.sockets,
   stale |-> {ws \in Range(f.to_remove) :
                /\ client_id[ws].id \in DOMAIN S.clients
                /\ Sharing(S.sockets, ws) = {}}]

\* The handler goes on after its outermost call of broadcast has returned, up
\* to its next await.
Resume(S) ==
  CASE S.pc = "connect" ->
         \* connect returns; line 131, then the await of line 132
         [S EXCEPT !.pc = "snapshot", !.snapshot = to_snapshot(S.doc)]
    [] S.pc = "broadcast" -> [S EXCEPT !.pc = "receive"]
    [] S.pc = "disconnect" -> [S EXCEPT !.pc = "done"]
    [] S.pc = "disconnect_raise" -> [S EXCEPT !.pc = "raised"]
    [] OTHER -> S

\* disconnect with a cleanup at lines 86-88 that drops the record of a
\* session without sockets.
Detach_cleanup(S, ws, cid) ==
  IF S.sockets \ {ws} = {}
  THEN [S EXCEPT !.docs = @ \ {DocId}, !.doc = <<>>, !.sockets = {},
                 !.clients = <<>>]
  ELSE [S EXCEPT !.sockets = @ \ {ws},
                 !.clients = IF cid \in DOMAIN @ THEN DelKey(@, cid) ELSE @]

\* Lines 79-83 of disconnect.
Detach(S, ws, cid) ==
  [S EXCEPT !.sockets = @ \ {ws},
            !.clients = IF cid \in DOMAIN @ THEN DelKey(@, cid) ELSE @]

RECURSIVE Run(_)
\* A task runs from where it stands to its next await: the loops of broadcast
\* (lines 103-109), disconnect and broadcast_users called from them, and the
\* return into the handler. It stops at a send_json (todo is not empty).
Run(S) ==
  LET n == Len(S.stack)
      top == S.stack[n]
  IN
  IF top.todo # {} THEN S
  ELSE IF top.nremoved < Len(top.to_remove)
  THEN \* line 109: disconnect(doc_id, ws, ""), which ends in broadcast_users
       LET ws == top.to_remove[top.nremoved + 1]
           D == Detach(S, ws, "")
       IN Run([D EXCEPT
                 !.stack = Append([S.stack EXCEPT
                                     ![n].nremoved = @ + 1,
                                     ![n].nlisted =
                                        IF D.sockets # {} THEN @ + 1 ELSE @],
                                  Frame(UserList(D.clients), D.sockets, ws))])
  ELSE \* broadcast returns
       LET R == [S EXCEPT !.stack = SubSeq(S.stack, 1, n - 1),
                          !.returned = @ \cup {Summary(top, S)}]
       IN IF n = 1 THEN Resume(R) ELSE Run(R)

\* broadcast(doc_id, message), run to the first await.
broadcast(S, message, cause) ==
  Run([S EXCEPT !.stack =
         Append(@, Frame(message,
                         IF DocId \in S.docs THEN S.sockets ELSE {},
                         cause))])

\* broadcast_users(doc_id)
broadcast_users(S, cause) == broadcast(S, UserList(S.clients), cause)

\* disconnect(doc_id, websocket, client_id), run to the first await.
disconnect(S, ws, cid) ==
  IF DocId \in S.docs THEN broadcast_users(Detach(S, ws, cid), 0) ELSE Resume(S)

\* connect whose ensure_doc makes a new record whether the doc_id has one or
\* not.
connect_fresh(S, ws, cid, username) ==
  LET E == [S EXCEPT !.docs = @ \cup {DocId}, !.doc = <<>>,
                     !.sockets = {}, !.clients = <<>>, !.records = @ + 1]
  IN broadcast_users(
       [E EXCEPT !.sockets = @ \cup {ws},
                 !.clients = SetKey(@, cid, [username |-> username, cursor |-> 0])],
       0)

\* connect(doc_id, websocket, client_id, username), run to the first await;
\* ensure_doc creates the record when the doc_id has none.
connect(S, ws, cid, username) ==
  LET E == IF DocId \in S.docs THEN S
           ELSE [S EXCEPT !.docs = @ \cup {DocId}, !.doc = <<>>,
                          !.sockets = {}, !.clients = <<>>,
                          !.records = @ + 1]
  IN broadcast_users(
       [E EXCEPT !.sockets = @ \cup {ws},
                 !.clients = SetKey(@, cid, [username |-> username, cursor |-> 0])],
       0)

(* ------------------------- websocket_endpoint -------------------------- *)

\* A handler that works on the nodes it read at line 131, before its awaits,
\* and writes them back: not on the nodes of the record as they are now.
Task_stale(c) ==
  [docs |-> docs, doc |-> snapshot[c], sockets |-> sockets, clients |-> clients,
   pc |-> pc[c], stack |-> stack[c], snapshot |-> snapshot[c],
   returned |-> returned, records |-> records]

\* What the task of connection c sees, and what it leaves behind.
Task(c) ==
  [docs |-> docs, doc |-> doc, sockets |-> sockets, clients |-> clients,
   pc |-> pc[c], stack |-> stack[c], snapshot |-> snapshot[c],
   returned |-> returned, records |-> records]

Commit(c, S) ==
  /\ docs' = S.docs
  /\ doc' = S.doc
  /\ sockets' = S.sockets
  /\ clients' = S.clients
  /\ pc' = [pc EXCEPT ![c] = S.pc]
  /\ stack' = [stack EXCEPT ![c] = S.stack]
  /\ snapshot' = [snapshot EXCEPT ![c] = S.snapshot]
  /\ returned' = S.returned
  /\ records' = S.records

\* An exception that leaves websocket_endpoint makes the server close the
\* connection.
Closed(st, c, S) == IF S.pc = "raised" THEN [st EXCEPT ![c] = "closed"] ELSE st

\* The client ids the next connection may come with.
NextClientIds ==
  LET used == {client_id[d].id : d \in {e \in Conns : pc[e] # "accept"}}
      new == {i \in 1..Len(ClientIds) : ClientIds[i] \notin used}
  IN used \cup {ClientIds[i] : i \in {j \in new : \A k \in new : j <= k}}

\* Lines 127-128: accept, then connect up to its first send. Connections are
\* interchangeable, so they are accepted in the order of their numbers.
Accept(c, cid, username) ==
  /\ pc[c] = "accept"
  /\ c <= MaxAccept
  /\ \A d \in Conns : d < c => pc[d] # "accept"
  /\ cid \in NextClientIds
  /\ client_id' = [client_id EXCEPT ![c] = [id |-> cid, username |-> username]]
  /\ state' = [state EXCEPT ![c] = "open"]
  /\ Commit(c, connect([Task(c) EXCEPT !.pc = "connect"], c, cid, username))
  /\ UNCHANGED <<inbox, nmsgs, applied, dvars>>

\* The client goes away, or the network does.
Close(c) ==
  /\ state[c] = "open"
  /\ Cardinality({d \in Conns : state[d] = "closed"}) < MaxClose
  /\ state' = [state EXCEPT ![c] = "closed"]
  /\ UNCHANGED <<docs, doc, sockets, clients, client_id, pc, stack, snapshot,
                 inbox, nmsgs, returned, records, applied, dvars>>

\* Line 105 returns: ws has the message.
SendOk(c, ws) ==
  /\ stack[c] # <<>>
  /\ LET n == Len(stack[c])
         top == stack[c][n]
     IN /\ ws \in top.todo
        /\ state[ws] = "open"
        /\ inbox' = [inbox EXCEPT ![ws] = Append(@, top.message)]
        /\ Commit(c, Run([Task(c) EXCEPT
                            !.stack[n].todo = @ \ {ws},
                            !.stack[n].sent = Append(@, ws)]))
  /\ UNCHANGED <<client_id, state, nmsgs, applied, dvars>>

\* broadcast without the try of lines 104-107 around each send: the first
\* failure ends the loop of line 103.
SendFail_abort(c, ws) ==
  /\ stack[c] # <<>>
  /\ LET n == Len(stack[c])
         top == stack[c][n]
     IN /\ ws \in top.todo
        /\ state[ws] # "open"
        /\ Commit(c, Run([Task(c) EXCEPT
                            !.stack[n].todo = {},
                            !.stack[n].to_remove = Append(@, ws)]))
  /\ UNCHANGED <<client_id, state, inbox, nmsgs, applied, dvars>>

\* Line 105 raises: lines 106-107.
SendFail(c, ws) ==
  /\ stack[c] # <<>>
  /\ LET n == Len(stack[c])
         top == stack[c][n]
     IN /\ ws \in top.todo
        /\ state[ws] # "open"
        /\ Commit(c, Run([Task(c) EXCEPT
                            !.stack[n].todo = @ \ {ws},
                            !.stack[n].to_remove = Append(@, ws)]))
  /\ UNCHANGED <<client_id, state, inbox, nmsgs, applied, dvars>>

\* Line 132. It is outside the try of line 134: when it raises, the handler
\* ends without a call of disconnect.
SendSnapshot(c) ==
  /\ pc[c] = "snapshot"
  /\ IF state[c] = "open"
     THEN /\ inbox' = [inbox EXCEPT
                         ![c] = Append(@, [type |-> "snapshot",
                                           chars |-> snapshot[c]])]
          /\ pc' = [pc EXCEPT ![c] = "receive"]
          /\ state' = state
     ELSE /\ inbox' = inbox
          /\ pc' = [pc EXCEPT ![c] = "raised"]
          /\ state' = state
  /\ UNCHANGED <<docs, doc, sockets, clients, client_id, stack, snapshot,
                 nmsgs, returned, records, applied, dvars>>

\* The value of msg['char'] when the key is missing (line 142 raises).
Missing == "<missing>"

\* The value of msg["id"] when the key is missing (line 165 raises).
MissingId == -1

\* The inbound messages of the model: an insert after a node or at the front
\* (client_op_id, which is only echoed, is left out), an insert without char,
\* a delete of a node or of an id no node has, a delete without id for a
\* document with nodes, a cursor, and a message of an unknown type.
Inbound(chars) ==
  LET known == {chars[i].id : i \in 1..Len(chars)} IN
     {[type |-> "insert", char |-> "a", after |-> a] : a \in known \cup {None}}
  \cup {[type |-> "insert", char |-> Missing, after |-> None]}
  \cup {[type |-> "delete", id |-> i] : i \in known \cup {Unseen}}
  \cup {[type |-> "delete", id |-> MissingId] : i \in known}
  \cup {[type |-> "cursor", position |-> p] : p \in Positions}
  \cup {[type |-> "ping"]}

\* Lines 189-191: except Exception: disconnect, then raise.
OnException(c) ==
  disconnect([Task(c) EXCEPT !.pc = "disconnect_raise"], c, client_id[c].id)

\* Lines 136-186: receive_json returns msg; the handler runs to its next
\* await. seq numbers the operations in the order they are applied (history).
ReceiveUpTo(c, msg, max) ==
  /\ pc[c] = "receive"
  /\ state[c] = "open"
  /\ nmsgs < max
  /\ msg \in Inbound(doc)
  /\ nmsgs' = nmsgs + 1
  /\ LET T == Task(c)
         S == CASE msg.type = "insert" ->
                     IF msg.char = Missing THEN OnException(c)
                     ELSE LET server_id == uuid4(doc)
                              op == [type |-> "insert", id |-> server_id,
                                     char |-> msg.char, after |-> msg.after,
                                     author |-> client_id[c].id,
                                     seq |-> nmsgs + 1]
                          IN broadcast(
                               [T EXCEPT !.pc = "broadcast",
                                         !.doc = merge_insert(doc, server_id,
                                                              msg.char, msg.after)],
                               op, 0)
                [] msg.type = "delete" ->
                     IF msg.id = MissingId THEN OnException(c)
                     ELSE broadcast(
                            [T EXCEPT !.pc = "broadcast",
                                      !.doc = merge_delete(doc, msg.id)],
                            [type |-> "delete", id |-> msg.id,
                             author |-> client_id[c].id, seq |-> nmsgs + 1],
                            0)
                [] msg.type = "cursor" ->
                     broadcast(
                       [T EXCEPT !.pc = "broadcast",
                                 !.clients =
                                    IF client_id[c].id \in DOMAIN @
                                    THEN [@ EXCEPT ![client_id[c].id].cursor =
                                                     msg.position]
                                    ELSE @],
                       [type |-> "cursor", user_id |-> client_id[c].id,
                        username |-> client_id[c].username,
                        position |-> msg.position, seq |-> nmsgs + 1],
                       0)
                [] OTHER -> [T EXCEPT !.pc = "error"]
     IN /\ Commit(c, S)
        /\ state' = Closed(state, c, S)
        /\ applied' = IF S.pc = "broadcast"
                      THEN Append(applied, S.stack[1].message)
                      ELSE applied
  /\ UNCHANGED <<client_id, inbox, dvars>>

Receive(c, msg) == ReceiveUpTo(c, msg, MaxMsgs)

SessionReceive(c, msg) == ReceiveUpTo(c, msg, MaxSessionMsgs)

\* Line 136 raises WebSocketDisconnect: lines 187-188.
ReceiveDisconnect(c) ==
  /\ pc[c] = "receive"
  /\ state[c] # "open"
  /\ Commit(c, disconnect([Task(c) EXCEPT !.pc = "disconnect"], c,
                          client_id[c].id))
  /\ UNCHANGED <<client_id, state, inbox, nmsgs, applied, dvars>>

\* Line 186: the error reply, to the sender alone. When it raises, one of the
\* except clauses of lines 187-191 runs, by the class of the exception.
SendError(c) ==
  /\ pc[c] = "error"
  /\ IF state[c] = "open"
     THEN /\ inbox' = [inbox EXCEPT
                         ![c] = Append(@, [type |-> "error",
                                           msg |-> "unknown message type"])]
          /\ Commit(c, [Task(c) EXCEPT !.pc = "receive"])
     ELSE /\ inbox' = inbox
          /\ \E next \in {"disconnect", "disconnect_raise"} :
               Commit(c, disconnect([Task(c) EXCEPT !.pc = next], c,
                                    client_id[c].id))
  /\ UNCHANGED <<client_id, state, nmsgs, applied, dvars>>

Next ==
  \/ \E c \in Conns, cid \in Range(ClientIds), username \in Usernames :
       Accept(c, cid, username)
  \/ \E c \in Conns : Close(c)
  \/ \E c \in Conns, ws \in Conns : SendOk(c, ws)
  \/ \E c \in Conns, ws \in Conns : SendFail(c, ws)
  \/ \E c \in Conns : SendSnapshot(c)
  \/ \E c \in Conns, msg \in Inbound(doc) : Receive(c, msg)
  \/ \E c \in Conns : ReceiveDisconnect(c)
  \/ \E c \in Conns : SendError(c)

Spec == Init /\ [][Next]_vars

(* ----------------- SpecSession: an established session ----------------- *)

\* The state after NConn connections have joined one after the other, each
\* with a client id of its own, and each connect has run to the receive of
\* line 136 before the next connection came.
SessionClients(n) ==
  [k \in {ClientIds[i] : i \in 1..n} |-> [username |-> "Anonymous", cursor |-> 0]]

SessionInbox(c) ==
  <<UserList(SessionClients(c)), [type |-> "snapshot", chars |-> <<>>]>>
    \o [i \in 1..(NConn - c) |-> UserList(SessionClients(c + i))]

SessionInit ==
  /\ docs = {DocId}
  /\ doc = <<>>
  /\ sockets = Conns
  /\ clients = SessionClients(NConn)
  /\ client_id = [c \in Conns |-> [id |-> ClientIds[c], username |-> "Anonymous"]]
  /\ state = [c \in Conns |-> "open"]
  /\ pc = [c \in Conns |-> "receive"]
  /\ stack = [c \in Conns |-> <<>>]
  /\ snapshot = [c \in Conns |-> <<>>]
  /\ inbox = [c \in Conns |-> SessionInbox(c)]
  /\ nmsgs = 0
  /\ returned = {[nsent |-> c, nfailed |-> 0, rosters |-> 0, listed |-> 0,
                  missed |-> {}, attached |-> {}, stale |-> {}] : c \in Conns}
  /\ records = 1
  /\ applied = <<>>
  /\ call = NoCall
  /\ before = <<>>
  /\ deleted = {}
  /\ dropped = {}

NextSession ==
  \/ \E c \in Conns : Close(c)
  \/ \E c \in Conns, ws \in Conns : SendOk(c, ws)
  \/ \E c \in Conns, ws \in Conns : SendFail(c, ws)
  \/ \E c \in Conns, msg \in Inbound(doc) : SessionReceive(c, msg)
  \/ \E c \in Conns : ReceiveDisconnect(c)
  \/ \E c \in Conns : SendError(c)

SpecSession == SessionInit /\ [][NextSession]_vars

(* ------------------ claims about the server (Spec) --------------------- *)

IsOp(m) == m.type \in {"insert", "delete", "cursor"}

\* The broadcasts in progress: every frame of every handler's stack.
Frames == UNION {Range(stack[c]) : c \in Conns}

\* How often the message m is in the inbox of ws.
Got(ws, m) == Cardinality({i \in 1..Len(inbox[ws]) : inbox[ws][i] = m})

\* C1: every connection receives the insert, delete and cursor events of the
\* document in the order in which the operations were applied (seq).
C1_EventsInAppliedOrder ==
  \A c \in Conns : \A i, j \in 1..Len(inbox[c]) :
    (i < j /\ IsOp(inbox[c][i]) /\ IsOp(inbox[c][j])) =>
      inbox[c][i].seq < inbox[c][j].seq

\* C3: in one broadcast a failed delivery does not keep the message from the
\* other listed sockets: when the broadcast returns, every listed socket whose
\* delivery did not fail has got the message exactly once, and no socket whose
\* delivery failed is in sockets. While a broadcast of an operation runs, the
\* sockets it has delivered to hold its event once, and nobody else holds it
\* unless the broadcast listed it.
C3_FailureDoesNotAbort ==
  /\ \A r \in returned : r.missed = {} /\ r.attached = {}
  /\ \A f \in Frames :
       /\ f.todo \cup Range(f.sent) \cup Range(f.to_remove) = f.targets
       /\ IsOp(f.message) =>
            \A ws \in Conns :
              Got(ws, f.message) = IF ws \in Range(f.sent) THEN 1 ELSE 0

\* A broadcast has returned in which one delivery failed and another one
\* succeeded.
C3_Witness == \E r \in returned : r.nfailed >= 1 /\ r.nsent >= 1

\* C4: every entry of clients corresponds to exactly one socket of sockets.
C4_PresenceMatchesSockets ==
  \A k \in DOMAIN clients :
    Cardinality({ws \in sockets : client_id[ws].id = k}) = 1

\* C5: when a delivery to a connection fails, the entry of its client leaves
\* clients with it: it is not there when the broadcast returns, and the
\* user_list sent for the removal does not list the client. (A client id that
\* another attached connection has is not counted.)
C5_FailedDeliveryDropsPresence ==
  /\ \A r \in returned : r.stale = {} /\ r.attached = {}
  /\ \A f \in Frames :
       (f.cause # 0 /\ Sharing(f.targets, f.cause) = {}) =>
         client_id[f.cause].id \notin {u.id : u \in f.message.users}

\* C6: a broadcast in which deliveries failed is followed by exactly one
\* user_list broadcast, however many failed; one without failure by none.
\* Whether a user_list broadcast that finds no socket to send to counts is
\* left open: there is at least one broadcast, and at most one that is sent
\* to somebody.
C6_OneRosterPerFailedBroadcast ==
  \A r \in returned :
    /\ r.nfailed >= 1 => (r.rosters >= 1 /\ r.listed <= 1)
    /\ r.nfailed = 0 => r.rosters = 0

(* ---------------------- claims about CRDTDocument ---------------------- *)

\* The last call was merge_insert of an id the document did not hold.
FreshInsert == call.op = "insert" /\ ~HasId(before, call.id)

\* chars without its element at (1-based) index i.
RemoveAt(chars, i) == SubSeq(chars, 1, i - 1) \o SubSeq(chars, i + 1, Len(chars))

\* C2: merge_insert with an id the document already holds (visible or
\* tombstoned) leaves the sequence, the chars and the visible flags as they
\* were, for any char and anchor; a second call with the same id adds nothing
\* to the first.
C2_IdempotentInsert ==
  /\ (call.op = "insert" /\ HasId(before, call.id)) => doc = before
  /\ call.op = "insert" =>
       \A c2 \in Chars, a2 \in AfterIds :
         merge_insert(doc, call.id, c2, a2) = doc

\* A merge_insert has been called with the id of a tombstoned node, another
\* char and an anchor that would have placed it elsewhere.
C2_Witness ==
  /\ call.op = "insert"
  /\ HasId(before, call.id)
  /\ ~before[IndexOf(before, call.id)].visible
  /\ before[IndexOf(before, call.id)].char # call.char
  /\ Len(before) >= 2
  /\ call.after = None
  /\ before[1].id # call.id

\* C7: merge_insert of a fresh id with a non-null anchor that no node has puts
\* the new node last and leaves the existing nodes and their order as they
\* were.
C7_LostAnchorAppends ==
  (FreshInsert /\ call.after # None /\ ~HasId(before, call.after)) =>
    /\ Len(doc) = Len(before) + 1
    /\ doc[Len(doc)] = CRDTChar(call.id, call.char, TRUE)
    /\ SubSeq(doc, 1, Len(before)) = before

\* A lost-anchor insert into a document that already held two nodes.
C7_Witness ==
  /\ FreshInsert
  /\ call.after # None
  /\ ~HasId(before, call.after)
  /\ Len(before) >= 2
  /\ doc[Len(doc)].id = call.id

\* C8: merge_insert of a fresh id whose anchor is the id of a node, visible or
\* tombstoned, puts the new node at the index right after the anchor's, among
\* all nodes; with a null anchor the new node is first. The other nodes keep
\* their order.
C8_AnchoredPosition ==
  /\ (FreshInsert /\ call.after # None /\ HasId(before, call.after)) =>
       \E k \in 1..Len(before) :
         /\ before[k].id = call.after
         /\ doc[k].id = call.after
         /\ doc[k + 1] = CRDTChar(call.id, call.char, TRUE)
         /\ RemoveAt(doc, k + 1) = before
  /\ (FreshInsert /\ call.after = None) =>
       /\ doc[1] = CRDTChar(call.id, call.char, TRUE)
       /\ Tail(doc) = before

\* The new node has been placed right after a tombstoned anchor that was not
\* the last node.
C8_Witness ==
  /\ FreshInsert
  /\ call.after # None
  /\ HasId(before, call.after)
  /\ ~before[IndexOf(before, call.after)].visible
  /\ IndexOf(before, call.after) < Len(before)
  /\ doc[IndexOf(before, call.after) + 1].id = call.id

\* C9: once merge_delete was given the id of a node, in every later state the
\* node is still listed by to_snapshot, with visible = false, and get_text is
\* what it would be without the node; no call makes the snapshot shorter.
C9_TombstonePermanent ==
  /\ \A x \in deleted :
       /\ HasId(doc, x)
       /\ Cardinality({i \in 1..Len(doc) : doc[i].id = x}) = 1
       /\ ~to_snapshot(doc)[IndexOf(doc, x)].visible
       /\ get_text(doc) = get_text(RemoveAt(doc, IndexOf(doc, x)))
  /\ Len(to_snapshot(doc)) >= Len(to_snapshot(before))

\* A deleted node has afterwards been the target of a merge_insert with its
\* own id, while another node is still visible.
C9_Witness ==
  /\ call.op = "insert"
  /\ call.id \in deleted
  /\ HasId(doc, call.id)
  /\ get_text(doc) # <<>>

\* C10: merge_delete with an id no node has leaves to_snapshot and get_text as
\* they were and is not remembered: a later merge_insert of that id gives a
\* visible node.
C10_UnknownDeleteNoOp ==
  /\ (call.op = "delete" /\ ~HasId(before, call.id)) =>
       /\ to_snapshot(doc) = to_snapshot(before)
       /\ get_text(doc) = get_text(before)
  /\ (call.op = "insert" /\ call.redo) =>
       /\ HasId(doc, call.id)
       /\ doc[IndexOf(doc, call.id)].visible
       /\ Len(doc) = Len(before) + 1

\* An id was deleted while unknown, in a document that held a node, and has
\* then been inserted.
C10_Witness ==
  /\ call.op = "insert"
  /\ call.redo
  /\ Len(before) >= 1
  /\ HasId(doc, call.id)


(* ------------------- claims about the session's life ------------------- *)

\* The snapshot message of the inbox of c, if it has one.
Snapshots(c) == {i \in 1..Len(inbox[c]) : inbox[c][i].type = "snapshot"}

\* C11: the document survives an empty session. A record, once made, stays;
\* no step but the handling of an inbound message changes the node sequence
\* (connect, disconnect and failed deliveries leave it alone, also when they
\* empty sockets); the snapshot a handler takes when connect has returned is
\* the node sequence of that moment, and it is what the connection is sent.
C11_DocumentSurvives ==
  [][/\ docs \subseteq docs'
     /\ nmsgs' = nmsgs => doc' = doc
     /\ (sockets' = {} /\ DocId \in docs) => doc' = doc
     /\ \A c \in Conns :
          /\ (pc[c] # "snapshot" /\ pc'[c] = "snapshot") =>
               snapshot'[c] = to_snapshot(doc')
          /\ (pc[c] = "snapshot" /\ pc'[c] = "receive") =>
               inbox'[c] = Append(inbox[c], [type |-> "snapshot",
                                             chars |-> snapshot[c]])]_vars

\* Connection 1 has left by a disconnect of its own, connection 2 has come to
\* a session without sockets (the user_list of its connect lists it alone) and
\* has been sent a snapshot with the node connection 1 had inserted.
C11_Witness ==
  /\ pc[1] \in {"done", "raised"}
  /\ sockets = {2}
  /\ Len(inbox[2]) >= 2
  /\ inbox[2][1].type = "user_list"
  /\ Cardinality(inbox[2][1].users) = 1
  /\ inbox[2][2].type = "snapshot"
  /\ Len(inbox[2][2].chars) >= 1
  /\ inbox[2][2].chars = to_snapshot(doc)
  /\ client_id[1].id # client_id[2].id

\* C12: at most one record is ever made for a document identifier, however
\* the handlers of connections that come to a new identifier interleave. The
\* record is there as soon as one connection has come, and every connect
\* registers its socket and its client in the record that is there: the
\* sockets, the clients and the nodes it held are kept.
C12_OneSessionPerDocument ==
  /\ [](records = Cardinality(docs) /\ records <= 1)
  /\ [](\A c \in Conns : pc[c] # "accept" => DocId \in docs)
  /\ [][\A c \in Conns :
          (pc[c] = "accept" /\ pc'[c] # "accept") =>
            /\ sockets' = sockets \cup {c}
            /\ doc' = doc
            /\ DOMAIN clients' = DOMAIN clients \cup {client_id'[c].id}
            /\ \A k \in DOMAIN clients \ {client_id'[c].id} :
                 clients'[k] = clients[k]]_vars

\* Two connections have come to the new identifier one right after the
\* other: the second was registered while the user_list broadcast of the
\* first one's connect had not delivered anything yet.
C12_Witness ==
  /\ pc[1] = "connect"
  /\ pc[2] = "connect"
  /\ inbox[1] = <<>>
  /\ inbox[2] = <<>>
  /\ sockets = {1, 2}
  /\ records = 1

\* The handler of c has made its call disconnect(doc_id, websocket, client_id)
\* of line 188 or 190, and lines 79-83 of it have run.
Detached(c) == pc[c] \in {"disconnect", "disconnect_raise", "done"}

\* C13: detach is idempotent. In every state after the handler of c has called
\* disconnect(doc_id, websocket, client_id), the same call made again leaves
\* sockets, clients and the nodes of the document as they are.
C13_DetachIdempotent ==
  \A c \in Conns :
    Detached(c) =>
      LET D == Detach(Task(c), c, client_id[c].id)
      IN D.sockets = sockets /\ D.clients = clients /\ D.doc = doc

\* The step is the receipt of an inbound message by the handler of c that
\* does not lead to the broadcast of an operation: its type is unknown or it
\* lacks a field.
ProtocolErrorStep(c) ==
  /\ nmsgs' = nmsgs + 1
  /\ pc[c] = "receive"
  /\ pc'[c] \notin {"receive", "broadcast"}

ErrorEvent == [type |-> "error", msg |-> "unknown message type"]

\* C14: a protocol error is answered with an error event to its sender alone.
\* The receipt changes neither the nodes of the document nor sockets nor
\* clients, starts no broadcast and leaves the handler about to send the error
\* event; the send, when the transport is open, gives the event to the sender
\* and to nobody else, and the handler is back at its receive, attached.
C14_ProtocolErrorReported ==
  [][\A c \in Conns :
       /\ ProtocolErrorStep(c) =>
            /\ pc'[c] = "error"
            /\ stack'[c] = <<>>
            /\ doc' = doc /\ sockets' = sockets /\ clients' = clients
            /\ inbox' = inbox
            /\ state'[c] = "open"
       /\ (pc[c] = "error" /\ pc'[c] # "error" /\ state[c] = "open") =>
            /\ inbox' = [inbox EXCEPT ![c] = Append(@, ErrorEvent)]
            /\ pc'[c] = "receive"
            /\ c \in sockets'
            /\ doc' = doc]_vars

\* C15: the snapshot is the first message a connection is sent: no user_list,
\* insert, delete or cursor event is delivered to it before.
C15_SnapshotFirst ==
  \A c \in Conns : inbox[c] # <<>> => inbox[c][1].type = "snapshot"

\* The effect of an operation event on the nodes.
ApplyOp(chars, op) ==
  CASE op.type = "insert" -> merge_insert(chars, op.id, op.char, op.after)
    [] op.type = "delete" -> merge_delete(chars, op.id)
    [] OTHER -> chars

RECURSIVE Replay(_)
\* The nodes after the operations ops, applied one at a time, in their order.
Replay(ops) ==
  IF ops = <<>> THEN <<>>
  ELSE ApplyOp(Replay(SubSeq(ops, 1, Len(ops) - 1)), ops[Len(ops)])

\* C16: the mutations of a document are applied one at a time, whole, in the
\* order of receipt. The nodes are at every await what the operations applied
\* so far give when they are applied one after the other; an operation whose
\* broadcast is under way has been applied whole; a step that applies an
\* operation applies just that one, to the nodes (and the cursor) as the step
\* before left them, and no step that applies none changes the nodes.
C16_MutationsExclusive ==
  /\ [](doc = Replay(applied))
  /\ [](\A f \in Frames : IsOp(f.message) => f.message \in Range(applied))
  /\ [][/\ applied' = applied => doc' = doc
        /\ applied' # applied =>
             LET op == applied'[Len(applied')] IN
             /\ applied' = Append(applied, op)
             /\ op.seq = nmsgs'
             /\ \A i \in 1..Len(applied) : applied[i].seq < op.seq
             /\ doc' = ApplyOp(doc, op)
             /\ op.type = "cursor" =>
                  /\ DOMAIN clients' = DOMAIN clients
                  /\ \A k \in DOMAIN clients :
                       clients'[k] = IF k = op.user_id
                                     THEN [clients[k] EXCEPT !.cursor = op.position]
                                     ELSE clients[k]
             /\ op.type # "cursor" => clients' = clients]_vars

\* Two handlers have each applied an insert, the second while the broadcast of
\* the first was waiting in a send, and both broadcasts are under way.
C16_Witness ==
  /\ Len(applied) = 2
  /\ applied[1].type = "insert"
  /\ applied[2].type = "insert"
  /\ Len(doc) = 2
  /\ \E c, d \in Conns :
       /\ c # d
       /\ stack[c] # <<>> /\ stack[c][1].message = applied[1]
       /\ stack[d] # <<>> /\ stack[d][1].message = applied[2]

(* ------------------ claims about the sequence of nodes ----------------- *)

\* The ids of the nodes of chars.
IdsOf(chars) == {chars[i].id : i \in 1..Len(chars)}

\* C17: no two nodes of the sequence, visible or tombstoned, have the same
\* id, and an id that is in the sequence stays in it: no call of merge_insert
\* or merge_delete, whatever its ids, takes one out.
C17_IdsUnique ==
  /\ \A i, j \in 1..Len(doc) : doc[i].id = doc[j].id => i = j
  /\ IdsOf(before) \subseteq IdsOf(doc)
  /\ deleted \subseteq IdsOf(doc)

\* Every id is in the sequence, one of them tombstoned, and merge_insert has
\* been called with the id of the tombstoned node.
C17_Witness ==
  /\ call.op = "insert"
  /\ call.id \in deleted
  /\ IdsOf(doc) = Ids
  /\ IdsOf(before) = Ids

\* C18: the relative order of the nodes is stable. Two nodes of which one is
\* before the other are both in the sequence after every call of merge_insert
\* and merge_delete, in the same order; so they are in every later state.
C18_OrderStable ==
  [][\A i, j \in 1..Len(doc) :
       i < j =>
         /\ HasId(doc', doc[i].id)
         /\ HasId(doc', doc[j].id)
         /\ IndexOf(doc', doc[i].id) < IndexOf(doc', doc[j].id)]_vars

\* merge_insert has been called with the id of a node of a full sequence and
\* with an anchor that is further back than that node.
C18_Witness ==
  /\ call.op = "insert"
  /\ HasId(before, call.id)
  /\ call.after # None
  /\ HasId(before, call.after)
  /\ IndexOf(before, call.id) < IndexOf(before, call.after)
  /\ Len(doc) = NIds

(* ------------------------ claims about replicas ------------------------ *)

RECURSIVE ReplayOn(_, _)
\* The nodes a replica that holds chars has after the events of msgs, in their
\* order; ApplyOp leaves the nodes alone for what is no insert or delete.
ReplayOn(chars, msgs) ==
  IF msgs = <<>> THEN chars
  ELSE ReplayOn(ApplyOp(chars, Head(msgs)), Tail(msgs))

\* The place of the snapshot in what connection c has been sent (0: none yet).
SnapshotAt(c) ==
  IF Snapshots(c) = {} THEN 0
  ELSE CHOOSE i \in Snapshots(c) : \A j \in Snapshots(c) : i <= j

\* The replica of the client of c: the snapshot it was sent, then every event
\* delivered after it, in the order of delivery.
Replica(c) ==
  ReplayOn(inbox[c][SnapshotAt(c)].chars,
           SubSeq(inbox[c], SnapshotAt(c) + 1, Len(inbox[c])))

\* Connection c is attached, has its snapshot, and no delivery to it failed.
Following(c) ==
  /\ c \in sockets
  /\ state[c] = "open"
  /\ pc[c] = "receive"
  /\ SnapshotAt(c) # 0

\* No broadcast is under way.
Quiet == \A c \in Conns : stack[c] = <<>>

\* C19: replicas converge. When no broadcast is under way, the replica of
\* every connection that is attached and was sent everything has the nodes of
\* the document: the same ids, in the same order, with the same flags.
C19_ReplicaConverges ==
  Quiet => \A c \in Conns : Following(c) => Replica(c) = to_snapshot(doc)

\* The snapshot chars holds the effect of the operation op on the document:
\* the node of an insert, the tombstone of a delete (a delete of an id that
\* no node of the document has had no effect).
Reflected(op, chars) ==
  CASE op.type = "insert" -> HasId(chars, op.id)
    [] op.type = "delete" ->
         HasId(doc, op.id) =>
           (HasId(chars, op.id) /\ ~chars[IndexOf(chars, op.id)].visible)
    [] OTHER -> TRUE

\* The event of the operation op has been delivered to connection c.
Delivered(c, op) == \E i \in 1..Len(inbox[c]) : inbox[c][i] = op

\* C20: no operation is lost to a connection that joins while others apply
\* operations. For a connection that is attached, has been sent its snapshot
\* and had no failed delivery, every insert and delete that was applied and
\* whose broadcast has returned is in the snapshot it was sent or has been
\* delivered to it as an event.
C20_NoOperationLost ==
  \A c \in Conns :
    Following(c) =>
      \A i \in 1..Len(applied) :
        (/\ applied[i].type \in {"insert", "delete"}
         /\ \A f \in Frames : f.message # applied[i]) =>
          \/ Delivered(c, applied[i])
          \/ Reflected(applied[i], inbox[c][SnapshotAt(c)].chars)

\* Connection 2 joined while connection 1 applied two operations: the first
\* is in its snapshot and was not delivered to it, the second was delivered
\* to it.
C20_Witness ==
  /\ Following(2)
  /\ Quiet
  /\ Len(applied) = 2
  /\ applied[1].type = "insert"
  /\ applied[2].type \in {"insert", "delete"}
  /\ ~Delivered(2, applied[1])
  /\ Reflected(applied[1], inbox[2][SnapshotAt(2)].chars)
  /\ Delivered(2, applied[2])

=============================================================================
